---------------------------- MODULE Spec2Model ----------------------------
(***************************************************************************)
(* A model of nlp/algorithms/finder/time_finder.py: the pattern catalog,   *)
(* the candidate scan, the overlap resolution (_remove_overlap), the field *)
(* normalization and the final ordering performed by run().                *)
(*                                                                         *)
(* Text is a sequence of one-character strings.  Offsets into text are     *)
(* 0-based and spans are half-open, as in Python: the character at offset  *)
(* i of s is s[i+1].  Lists of the program are sequences, so positions in  *)
(* lists (the members of indices and overlaps) are 1-based here.           *)
(***************************************************************************)
EXTENDS Integers, Sequences, FiniteSets, TLC

(***************************************************************************)
(* Characters and character classes of the re module (ASCII).              *)
(***************************************************************************)
UpperCase == <<"A","B","C","D","E","F","G","H","I","J","K","L","M",
               "N","O","P","Q","R","S","T","U","V","W","X","Y","Z">>
LowerCase == <<"a","b","c","d","e","f","g","h","i","j","k","l","m",
               "n","o","p","q","r","s","t","u","v","w","x","y","z">>
Letters == {UpperCase[k] : k \in 1..Len(UpperCase)} \cup {LowerCase[k] : k \in 1..Len(LowerCase)}
DigitChars == <<"0","1","2","3","4","5","6","7","8","9">>
\* \d
Digits == {DigitChars[k] : k \in 1..Len(DigitChars)}
\* \s
WhiteSpace == {" ", "\t", "\n", "\r", "\f"}
\* \w, the class that decides \b
WordChars == Letters \cup Digits \cup {"_"}

\* the other case of a cased character; any other character is itself
SwapCase(c) ==
  IF \E k \in 1..Len(UpperCase) : UpperCase[k] = c
    THEN LowerCase[CHOOSE k \in 1..Len(UpperCase) : UpperCase[k] = c]
  ELSE IF \E k \in 1..Len(LowerCase) : LowerCase[k] = c
    THEN UpperCase[CHOOSE k \in 1..Len(LowerCase) : LowerCase[k] = c]
  ELSE c

(***************************************************************************)
(* Regular expressions as syntax trees.                                    *)
(***************************************************************************)
Cls(set)     == [t |-> "cls", set |-> set]
Cat(rs)      == [t |-> "cat", rs |-> rs]
Alt(rs)      == [t |-> "alt", rs |-> rs]
Opt(r)       == [t |-> "opt", r |-> r]
Star(r)      == [t |-> "star", r |-> r]
Plus(r)      == Cat(<<r, Star(r)>>)
Grp(name, r) == [t |-> "grp", name |-> name, r |-> r]
NotAhead(r)  == [t |-> "nla", r |-> r]
WordBoundary == [t |-> "wb"]
Lit(chars)   == Cat([k \in 1..Len(chars) |-> Cls({chars[k]})])

\* re.compile(pattern, re.IGNORECASE): every class also accepts the other case
RECURSIVE IgnoreCase(_)
IgnoreCase(r) ==
  CASE r.t = "cls"  -> Cls(r.set \cup {SwapCase(c) : c \in r.set})
    [] r.t = "cat"  -> Cat([k \in 1..Len(r.rs) |-> IgnoreCase(r.rs[k])])
    [] r.t = "alt"  -> Alt([k \in 1..Len(r.rs) |-> IgnoreCase(r.rs[k])])
    [] r.t = "opt"  -> Opt(IgnoreCase(r.r))
    [] r.t = "star" -> Star(IgnoreCase(r.r))
    [] r.t = "grp"  -> Grp(r.name, IgnoreCase(r.r))
    [] r.t = "nla"  -> NotAhead(IgnoreCase(r.r))
    [] r.t = "wb"   -> r

GroupNames == {"hours", "minutes", "seconds", "frac", "am_pm", "timezone",
               "gmt_delta", "gmt_sign", "gmt_hours", "gmt_minutes"}
\* a group that took no part in the match (None in groupdict())
NoSpan == <<>>
NoGroups == [n \in GroupNames |-> NoSpan]

(***************************************************************************)
(* The backtracking matcher.  Match(r, s, i, g) is the sequence of ways r  *)
(* matches s from offset i, in the order the re module tries them: each is *)
(* the offset e the match ends at and the groups g captured on the way.    *)
(* The first one that lets the rest of the pattern succeed is the match.   *)
(***************************************************************************)
Here(i, g) == << [e |-> i, g |-> g] >>

IsWordAt(s, i) == i >= 0 /\ i < Len(s) /\ s[i+1] \in WordChars

RECURSIVE Match(_, _, _, _), MatchEach(_, _, _), MatchCat(_, _, _, _), MatchAlt(_, _, _, _, _, _)
Match(r, s, i, g) ==
  CASE r.t = "cls"  -> IF i < Len(s) /\ s[i+1] \in r.set THEN Here(i+1, g) ELSE <<>>
    [] r.t = "cat"  -> MatchCat(r.rs, 1, s, Here(i, g))
    [] r.t = "alt"  -> MatchAlt(r.rs, 1, Len(r.rs), s, i, g)
    [] r.t = "opt"  -> Match(r.r, s, i, g) \o Here(i, g)
    [] r.t = "star" -> MatchEach(r, s, SelectSeq(Match(r.r, s, i, g), LAMBDA x : x.e > i))
                         \o Here(i, g)
    [] r.t = "grp"  -> LET xs == Match(r.r, s, i, g)
                       IN [k \in 1..Len(xs) |->
                             [e |-> xs[k].e, g |-> [xs[k].g EXCEPT ![r.name] = <<i, xs[k].e>>]]]
    [] r.t = "nla"  -> IF Len(Match(r.r, s, i, g)) = 0 THEN Here(i, g) ELSE <<>>
    [] r.t = "wb"   -> IF IsWordAt(s, i-1) # IsWordAt(s, i) THEN Here(i, g) ELSE <<>>

\* r continued from each of the partial matches xs, in their order
MatchEach(r, s, xs) ==
  IF Len(xs) = 0 THEN <<>>
  ELSE Match(r, s, xs[1].e, xs[1].g) \o MatchEach(r, s, Tail(xs))

MatchCat(rs, k, s, xs) ==
  IF k > Len(rs) \/ Len(xs) = 0 THEN xs
  ELSE MatchCat(rs, k+1, s, MatchEach(rs[k], s, xs))

\* the alternatives rs[lo..hi], the earlier ones first
MatchAlt(rs, lo, hi, s, i, g) ==
  IF lo > hi THEN <<>>
  ELSE IF lo = hi THEN Match(rs[lo], s, i, g)
  ELSE LET mid == (lo + hi) \div 2
       IN MatchAlt(rs, lo, mid, s, i, g) \o MatchAlt(rs, mid + 1, hi, s, i, g)

\* regex.match(s): the match at offset 0, or NoMatch
NoMatch == [start |-> -1, end |-> -1, g |-> NoGroups]
MatchAt(regex, s, pos) ==
  LET xs == Match(regex, s, pos, NoGroups)
  IN IF Len(xs) = 0 THEN NoMatch ELSE [start |-> pos, end |-> xs[1].e, g |-> xs[1].g]
re_match(regex, s) == MatchAt(regex, s, 0)

\* regex.search(s): the leftmost match
RECURSIVE SearchFrom(_, _, _)
SearchFrom(regex, s, pos) ==
  IF pos > Len(s) THEN NoMatch
  ELSE LET m == MatchAt(regex, s, pos)
       IN IF m # NoMatch THEN m ELSE SearchFrom(regex, s, pos+1)
re_search(regex, s) == SearchFrom(regex, s, 0)

\* regex.finditer(s): the matches left to right, none overlapping another
RECURSIVE FindFrom(_, _, _)
FindFrom(regex, s, pos) ==
  LET m == SearchFrom(regex, s, pos)
  IN IF m = NoMatch THEN <<>>
     ELSE <<m>> \o FindFrom(regex, s, IF m.end > m.start THEN m.end ELSE m.end + 1)
finditer(regex, s) == FindFrom(regex, s, 0)

\* match.group(name): the text of a group, given the searched string
GroupText(m, name, s) == SubSeq(s, m.g[name][1] + 1, m.g[name][2])
\* match.group(): the whole matched text
MatchText(m, s) == SubSeq(s, m.start + 1, m.end)

\* regex.sub(repl, s): every match of regex replaced by repl
RECURSIVE SubFrom(_, _, _, _)
SubFrom(ms, repl, s, pos) ==
  IF Len(ms) = 0 THEN SubSeq(s, pos + 1, Len(s))
  ELSE SubSeq(s, pos + 1, ms[1].start) \o repl \o SubFrom(Tail(ms), repl, s, ms[1].end)
re_sub(regex, repl, s) == SubFrom(finditer(regex, s), repl, s, 0)

(***************************************************************************)
(* The pattern catalog.                                                    *)
(***************************************************************************)
\* fractional seconds
_str_frac == Cat(<<Cls({".", ":"}), Plus(Cls(Digits))>>)
\* hours, 12-hour clock
_str_h12 == Alt(<<Cat(<<Opt(Cls({"0"})), Cls(Digits \ {"0"})>>),
                  Cat(<<Cls({"1"}), Cls({"0", "1", "2"})>>)>>)
\* hours, 24-hour clock
_str_h24 == Alt(<<Cat(<<Cls({"0", "1"}), Cls(Digits)>>),
                  Cat(<<Cls({"2"}), Cls({"0", "1", "2", "3", "4"})>>)>>)
\* am or pm
_str_am_pm == Cat(<<Cls({"a", "A", "p", "P"}), Opt(Cls({"."})),
                    Cls({"m", "M"}), Opt(Cls({"."}))>>)
\* minutes
_str_MM == Cat(<<Cls({"0", "1", "2", "3", "4", "5"}), Cls(Digits)>>)
_time_zone_abbrevs ==
  <<
    <<"A","C","D","T">>, <<"A","C","S","T">>, <<"A","C","T">>, <<"A","C","W","S","T">>,
    <<"A","D","T">>, <<"A","E","D","T">>, <<"A","E","S","T">>, <<"A","F","T">>,
    <<"A","K","D","T">>, <<"A","K","S","T">>, <<"A","M","S","T">>, <<"A","M","T">>,
    <<"A","R","T">>, <<"A","S","T">>, <<"A","W","S","T">>, <<"A","Z","O","S","T">>,
    <<"A","Z","O","T">>, <<"A","Z","T">>, <<"B","D","T">>, <<"B","I","O","T">>,
    <<"B","I","T">>, <<"B","O","T">>, <<"B","R","S","T">>, <<"B","R","T">>,
    <<"B","S","T">>, <<"B","T","T">>, <<"C","A","T">>, <<"C","C","T">>,
    <<"C","D","T">>, <<"C","E","S","T">>, <<"C","E","T">>, <<"C","H","A","D","T">>,
    <<"C","H","A","S","T">>, <<"C","H","O","T">>, <<"C","H","O","S","T">>, <<"C","H","S","T">>,
    <<"C","H","U","T">>, <<"C","I","S","T">>, <<"C","I","T">>, <<"C","K","T">>,
    <<"C","L","S","T">>, <<"C","L","T">>, <<"C","O","S","T">>, <<"C","O","T">>,
    <<"C","S","T">>, <<"C","T">>, <<"C","V","T">>, <<"C","W","S","T">>,
    <<"C","X","T">>, <<"D","A","V","T">>, <<"D","D","U","T">>, <<"D","F","T">>,
    <<"E","A","S","S","T">>, <<"E","A","S","T">>, <<"E","A","T">>, <<"E","C","T">>,
    <<"E","D","T">>, <<"E","E","S","T">>, <<"E","E","T">>, <<"E","G","S","T">>,
    <<"E","G","T">>, <<"E","I","T">>, <<"E","S","T">>, <<"F","E","T">>,
    <<"F","J","T">>, <<"F","K","S","T">>, <<"F","K","T">>, <<"F","N","T">>,
    <<"G","A","L","T">>, <<"G","A","M","T">>, <<"G","E","T">>, <<"G","F","T">>,
    <<"G","I","L","T">>, <<"G","I","T">>, <<"G","M","T">>, <<"G","S","T">>,
    <<"G","Y","T">>, <<"H","D","T">>, <<"H","A","E","C">>, <<"H","S","T">>,
    <<"H","K","T">>, <<"H","M","T">>, <<"H","O","V","S","T">>, <<"H","O","V","T">>,
    <<"I","C","T">>, <<"I","D","L","W">>, <<"I","D","T">>, <<"I","O","T">>,
    <<"I","R","D","T">>, <<"I","R","K","T">>, <<"I","R","S","T">>, <<"I","S","T">>,
    <<"J","S","T">>, <<"K","G","T">>, <<"K","O","S","T">>, <<"K","R","A","T">>,
    <<"K","S","T">>, <<"L","H","S","T">>, <<"L","I","N","T">>, <<"M","A","G","T">>,
    <<"M","A","R","T">>, <<"M","A","W","T">>, <<"M","D","T">>, <<"M","E","T">>,
    <<"M","E","S","T">>, <<"M","H","T">>, <<"M","I","S","T">>, <<"M","I","T">>,
    <<"M","M","T">>, <<"M","S","K">>, <<"M","S","T">>, <<"M","U","T">>,
    <<"M","V","T">>, <<"M","Y","T">>, <<"N","C","T">>, <<"N","D","T">>,
    <<"N","F","T">>, <<"N","P","T">>, <<"N","S","T">>, <<"N","T">>,
    <<"N","U","T">>, <<"N","Z","D","T">>, <<"N","Z","S","T">>, <<"O","M","S","T">>,
    <<"O","R","A","T">>, <<"P","D","T">>, <<"P","E","T">>, <<"P","E","T","T">>,
    <<"P","G","T">>, <<"P","H","O","T">>, <<"P","H","T">>, <<"P","K","T">>,
    <<"P","M","D","T">>, <<"P","M","S","T">>, <<"P","O","N","T">>, <<"P","S","T">>,
    <<"P","Y","S","T">>, <<"P","Y","T">>, <<"R","E","T">>, <<"R","O","T","T">>,
    <<"S","A","K","T">>, <<"S","A","M","T">>, <<"S","A","S","T">>, <<"S","B","T">>,
    <<"S","C","T">>, <<"S","D","T">>, <<"S","G","T">>, <<"S","L","S","T">>,
    <<"S","R","E","T">>, <<"S","R","T">>, <<"S","S","T">>, <<"S","Y","O","T">>,
    <<"T","H","A","T">>, <<"T","H","A">>, <<"T","F","T">>, <<"T","J","T">>,
    <<"T","K","T">>, <<"T","L","T">>, <<"T","M","T">>, <<"T","R","T">>,
    <<"T","O","T">>, <<"T","V","T">>, <<"U","L","A","S","T">>, <<"U","L","A","T">>,
    <<"U","S","Z","1">>, <<"U","T","C">>, <<"U","Y","S","T">>, <<"U","Y","T">>,
    <<"U","Z","T">>, <<"V","E","T">>, <<"V","L","A","T">>, <<"V","O","L","T">>,
    <<"V","O","S","T">>, <<"V","U","T">>, <<"W","A","K","T">>, <<"W","A","S","T">>,
    <<"W","A","T">>, <<"W","E","S","T">>, <<"W","E","T">>, <<"W","I","T">>,
    <<"W","S","T">>, <<"Y","A","K","T">>, <<"Y","E","K","T">>, <<"Z">>
  >>
\* world time zones, and Z
_str_time_zone_abbrev ==
  Alt([k \in 1..Len(_time_zone_abbrevs) |-> Lit(_time_zone_abbrevs[k])])
\* separator, colon only
_str_sep == Cls({":"})
\* t or T, to indicate time
_str_t == Cat(<<WordBoundary, Opt(Cls({"t", "T"}))>>)

\* hour only, with am_pm
_str_h12_am_pm ==
  Cat(<<WordBoundary, Grp("hours", _str_h12), Star(Cls(WhiteSpace)),
        Grp("am_pm", _str_am_pm)>>)
\* hour and minutes
_str_h12m ==
  Cat(<<WordBoundary, Grp("hours", _str_h12), _str_sep,
        Grp("minutes", Cat(<<_str_MM, NotAhead(Cls(Digits))>>))>>)
\* hour and minutes, with am_pm
_str_h12m_am_pm ==
  Cat(<<WordBoundary, Grp("hours", _str_h12), _str_sep,
        Grp("minutes", _str_MM), Star(Cls(WhiteSpace)),
        Grp("am_pm", Cat(<<_str_am_pm, NotAhead(Cls(Digits))>>))>>)
\* hour, minutes, and seconds, with am_pm
_str_h12ms_am_pm ==
  Cat(<<WordBoundary, Grp("hours", _str_h12), _str_sep,
        Grp("minutes", _str_MM), _str_sep,
        Grp("seconds", _str_MM), Star(Cls(WhiteSpace)),
        Grp("am_pm", _str_am_pm)>>)
\* hour, minutes, seconds, and fraction, with am_pm
_str_h12msf_am_pm ==
  Cat(<<WordBoundary, Grp("hours", _str_h12), Cls({":"}),
        Grp("minutes", _str_MM), Cls({":"}),
        Grp("seconds", _str_MM),
        Grp("frac", _str_frac), Star(Cls(WhiteSpace)),
        Grp("am_pm", _str_am_pm)>>)
\* 24 hour notation: hour and minutes
_str_h24m ==
  Cat(<<_str_t, Grp("hours", _str_h24), _str_sep,
        Grp("minutes", Cat(<<_str_MM, NotAhead(Cls(Digits))>>))>>)
\* hour and minutes, no colon
_str_h24m_no_colon ==
  Cat(<<_str_t, Grp("hours", _str_h24),
        Grp("minutes", Cat(<<_str_MM, NotAhead(Cls(Digits))>>))>>)
\* hour, minutes, and seconds
_str_h24ms ==
  Cat(<<_str_t, Grp("hours", _str_h24), _str_sep,
        Grp("minutes", _str_MM), _str_sep,
        Grp("seconds", Cat(<<_str_MM, NotAhead(Cls(Digits))>>))>>)
\* hour, minutes, and seconds, no colon
_str_h24ms_no_colon ==
  Cat(<<_str_t, Grp("hours", _str_h24),
        Grp("minutes", _str_MM),
        Grp("seconds", Cat(<<_str_MM, NotAhead(Cls(Digits))>>))>>)
\* hour, minutes, seconds, and timezone
_str_h24ms_with_timezone ==
  Cat(<<_str_t, Grp("hours", _str_h24),
        Grp("minutes", _str_MM),
        Grp("seconds", _str_MM), Star(Cls(WhiteSpace)),
        Grp("timezone", _str_time_zone_abbrev)>>)
\* hour, minutes, seconds with GMT delta
_str_gmt_delta ==
  Cat(<<Opt(Alt(<<Lit(<<"G", "M", "T">>), Lit(<<"U", "T", "C">>)>>)),
        Cls({"-", "+"}), _str_h24, Opt(Cls({":"})), Opt(_str_MM)>>)
_str_h24ms_with_gmt_delta ==
  Cat(<<_str_t, Grp("hours", _str_h24),
        Grp("minutes", _str_MM),
        Grp("seconds", _str_MM), Star(Cls(WhiteSpace)),
        Grp("gmt_delta", _str_gmt_delta)>>)
\* decipher the gmt_delta components
_str_gmt ==
  Cat(<<Opt(Alt(<<Lit(<<"G", "M", "T">>), Lit(<<"U", "T", "C">>)>>)),
        Grp("gmt_sign", Cls({"-", "+"})),
        Grp("gmt_hours", _str_h24), Opt(Cls({":"})),
        Opt(Grp("gmt_minutes", _str_MM))>>)
\* hour, minutes, seconds, and fraction
_str_h24msf ==
  Cat(<<_str_t, Grp("hours", _str_h24), _str_sep,
        Grp("minutes", _str_MM), _str_sep,
        Grp("seconds", _str_MM),
        Grp("frac", _str_frac)>>)

\* ISO8601 formats
_str_iso_hh == Alt(<<Cat(<<Cls({"0", "1"}), Cls(Digits)>>),
                     Cat(<<Cls({"2"}), Cls({"0", "1", "2", "3", "4"})>>)>>)
_str_iso_mm == Cat(<<Cls({"0", "1", "2", "3", "4", "5"}), Cls(Digits)>>)
_str_iso_ss == Alt(<<Cat(<<Cls({"0", "1", "2", "3", "4", "5"}), Cls(Digits)>>),
                     Lit(<<"6", "0">>)>>)
_str_iso_zone_hm ==
  Cat(<<Grp("gmt_hours", _str_iso_hh),
        Opt(Cat(<<Opt(Cls({":"})), Grp("gmt_minutes", _str_iso_mm)>>))>>)
_str_iso_zone ==
  Alt(<<Grp("timezone", Cls({"Z"})),
        Cat(<<Grp("gmt_sign", Cls({"-", "+"})), _str_iso_zone_hm>>)>>)
\* note the essential negative lookahead in these
_str_iso_hh_only ==
  Cat(<<WordBoundary, Grp("hours", Cat(<<_str_iso_hh, NotAhead(Cls(Digits))>>)),
        Opt(Grp("gmt_delta", _str_iso_zone))>>)
_str_iso_hhmm_only ==
  Cat(<<WordBoundary, Grp("hours", _str_iso_hh),
        Grp("minutes", Cat(<<_str_iso_mm, NotAhead(Cls(Digits))>>)),
        Opt(Grp("gmt_delta", _str_iso_zone))>>)
_str_iso_hms ==
  Cat(<<WordBoundary, Grp("hours", _str_iso_hh), Opt(Cls({":"})),
        Grp("minutes", _str_iso_mm), Opt(Cls({":"})),
        Grp("seconds", _str_iso_ss),
        Opt(Grp("frac", Cat(<<Cls({"."}), Plus(Cls(Digits))>>)))>>)
_str_iso_time == Cat(<<_str_iso_hms, Opt(Grp("gmt_delta", _str_iso_zone))>>)

\* the compiled patterns
_regex_h12_am_pm            == _str_h12_am_pm
_regex_h12m                 == _str_h12m
_regex_h12m_am_pm           == _str_h12m_am_pm
_regex_h12ms_am_pm          == _str_h12ms_am_pm
_regex_h12msf_am_pm         == _str_h12msf_am_pm
_regex_h24m                 == _str_h24m
_regex_h24m_no_colon        == _str_h24m_no_colon
_regex_h24ms                == _str_h24ms
_regex_h24ms_no_colon       == _str_h24ms_no_colon
_regex_h24ms_with_timezone  == IgnoreCase(_str_h24ms_with_timezone)
_regex_gmt                  == _str_gmt
_regex_h24ms_with_gmt_delta == IgnoreCase(_str_h24ms_with_gmt_delta)
_regex_h24msf               == _str_h24msf
_regex_iso_hh               == _str_iso_hh_only
_regex_iso_hhmm             == _str_iso_hhmm_only
_regex_iso_time             == _str_iso_time

\* the catalog, in scan order; a candidate names its pattern by its place here
_regexes ==
  << _regex_iso_hhmm,
     _regex_iso_hh,
     _regex_iso_time,
     _regex_h24ms_with_gmt_delta,
     _regex_h24ms_with_timezone,
     _regex_h24ms_no_colon,
     _regex_h24m_no_colon,
     _regex_h12msf_am_pm,
     _regex_h12ms_am_pm,
     _regex_h12m_am_pm,
     _regex_h12_am_pm,
     _regex_h24msf,
     _regex_h24ms,
     _regex_h24m,
     _regex_h12m >>

\* match (), {}, and []
_str_brackets == Cls({"(", ")", "{", "}", "[", "]"})
_regex_brackets == _str_brackets

(***************************************************************************)
(* Values of run().                                                        *)
(***************************************************************************)
\* default value for all fields (None)
EMPTY_FIELD == <<>>
STR_AM == <<"a", "m">>
STR_PM == <<"p", "m">>

_Candidate(start, end, match_text, regex) ==
  [start |-> start, end |-> end, match_text |-> match_text, regex |-> regex]

\* int(v), v a string of decimal digits
DigitVal(c) == CHOOSE d \in 0..9 : DigitChars[d+1] = c
RECURSIVE int(_)
int(v) == IF Len(v) = 0 THEN 0
          ELSE 10 * int(SubSeq(v, 1, Len(v) - 1)) + DigitVal(v[Len(v)])

\* sorted(xs, key=..., reverse=reverse), key[k] being the key of xs[k]: a stable
\* sort, so elements with equal keys keep the order they have in xs, also when
\* reverse is set
sorted(xs, key, reverse) ==
  LET n == Len(xs)
      Before(j, k) == IF reverse THEN key[j] > key[k] ELSE key[j] < key[k]
      Pos(k) == 1 + Cardinality({j \in 1..n :
                      Before(j, k) \/ (key[j] = key[k] /\ j < k)})
  IN [p \in 1..n |-> xs[CHOOSE k \in 1..n : Pos(k) = p]]

\* a variant that tests the second interval against the wrong end of the first
_has_overlap_wrong_endpoint(a1, b1, a2, b2) ==
  IF b2 <= a1 THEN FALSE
  ELSE IF a2 >= a1 THEN FALSE
  ELSE TRUE

\* a variant that takes intervals that only touch to overlap
_has_overlap_touching(a1, b1, a2, b2) ==
  IF b2 < a1 THEN FALSE
  ELSE IF a2 > b1 THEN FALSE
  ELSE TRUE

\* Determine if intervals [a1, b1) and [a2, b2) overlap at all.
_has_overlap(a1, b1, a2, b2) ==
  IF b2 <= a1 THEN FALSE
  ELSE IF a2 >= b1 THEN FALSE
  ELSE TRUE

\* a variant that erases the brackets instead of putting a space in their place
_clean_sentence_erase(sentence) == re_sub(_regex_brackets, <<>>, sentence)

\* a variant that replaces the first bracket only (sub with count=1)
_clean_sentence_first_only(sentence) ==
  LET ms == finditer(_regex_brackets, sentence)
  IN SubFrom(IF Len(ms) = 0 THEN ms ELSE <<ms[1]>>, <<" ">>, sentence, 0)

\* Do some preliminary processing on the sentence: erase [], {}, or ()
_clean_sentence(sentence) == re_sub(_regex_brackets, <<" ">>, sentence)

\* a variant that records the offset of the last character as the end
CandidatesOf_inclusive_end(regex_index, sentence) ==
  LET ms == finditer(_regexes[regex_index], sentence)
  IN [k \in 1..Len(ms) |->
        _Candidate(ms[k].start, ms[k].end - 1, MatchText(ms[k], sentence), regex_index)]

\* the candidates one pattern contributes: every match of its finditer sweep
CandidatesOf(regex_index, sentence) ==
  LET ms == finditer(_regexes[regex_index], sentence)
  IN [k \in 1..Len(ms) |->
        _Candidate(ms[k].start, ms[k].end, MatchText(ms[k], sentence), regex_index)]

\* the scan loop of run(): the candidates of every pattern, pooled in catalog order
RECURSIVE ScanFrom(_, _)
ScanFrom(regex_index, sentence) ==
  IF regex_index > Len(_regexes) THEN <<>>
  ELSE CandidatesOf(regex_index, sentence) \o ScanFrom(regex_index + 1, sentence)

\* a variant that sorts ascending and reverses the list, which also reverses the
\* candidates of equal length
SortCandidates_reversed(cands) ==
  LET up == sorted(cands, [k \in 1..Len(cands) |-> cands[k].end - cands[k].start], FALSE)
  IN [k \in 1..Len(up) |-> up[Len(up) + 1 - k]]

\* a variant that leaves the candidates in their pooled order
SortCandidates_unsorted(cands) ==
  cands

\* sort the candidates in descending order of length
SortCandidates(cands) ==
  sorted(cands, [k \in 1..Len(cands) |-> cands[k].end - cands[k].start], TRUE)

(***************************************************************************)
(* One pass of the outer loop of _remove_overlap, with i = 0 (position 1). *)
(* InnerScan is the loop over j; st holds the pass's local variables.      *)
(***************************************************************************)
RECURSIVE InnerScan(_, _, _, _)
InnerScan(cands, idx, j, st) ==
  IF j > Len(idx) THEN st
  ELSE LET index_j == idx[j]
           start_j == cands[index_j].start
           end_j   == cands[index_j].end
           len_j   == end_j - start_j
       IN IF _has_overlap(st.start_i, st.end_i, start_j, end_j)
            THEN IF len_j > st.len_i
                   \* keep the longest match at any overlap region
                   THEN InnerScan(cands, idx, j + 1,
                          [start_i |-> start_j, end_i |-> end_j, len_i |-> len_j,
                           candidate_index |-> index_j,
                           overlaps |-> Append(st.overlaps, j),
                           replaced |-> TRUE])
                   ELSE InnerScan(cands, idx, j + 1,
                          [st EXCEPT !.overlaps = Append(st.overlaps, j)])
            ELSE InnerScan(cands, idx, j + 1, st)

OnePass(cands, idx) ==
  LET index_i == idx[1]
      start_i == cands[index_i].start
      end_i   == cands[index_i].end
  IN InnerScan(cands, idx, 2,
       [start_i |-> start_i, end_i |-> end_i, len_i |-> end_i - start_i,
        candidate_index |-> index_i, overlaps |-> <<1>>, replaced |-> FALSE])

\* a variant that takes overlaps to hold members of idx, not positions in it
RemoveOverlaps_by_value(idx, overlaps) ==
  LET keep == {k \in 1..Len(idx) : \A m \in 1..Len(overlaps) : overlaps[m] # idx[k]}
      Nth(p) == CHOOSE k \in keep : Cardinality({m \in keep : m < k}) = p - 1
  IN [p \in 1..Cardinality(keep) |-> idx[Nth(p)]]

\* a variant that removes the first position only, whatever overlaps holds
RemoveOverlaps_first_only(idx, overlaps) ==
  [p \in 1..(Len(idx) - 1) |-> idx[p + 1]]

\* remove all overlaps: the positions of idx that are not in overlaps
RemoveOverlaps(idx, overlaps) ==
  LET keep == {k \in 1..Len(idx) : \A m \in 1..Len(overlaps) : overlaps[m] # k}
      Nth(p) == CHOOSE k \in keep : Cardinality({m \in keep : m < k}) = p - 1
  IN [p \in 1..Cardinality(keep) |-> idx[Nth(p)]]

(***************************************************************************)
(* The normalization loop of run(): one TimeValue per resolved candidate.  *)
(***************************************************************************)
HasGroup(m, name) == m.g[name] # NoSpan

\* the fields that the gmt_delta text v sets
GmtFields(v) ==
  LET match_gmt == re_search(_regex_gmt, v)
      Has(name) == match_gmt.start >= 0 /\ HasGroup(match_gmt, name)
  IN [sign    |-> IF Has("gmt_sign") THEN GroupText(match_gmt, "gmt_sign", v)
                  ELSE EMPTY_FIELD,
      hours   |-> IF Has("gmt_hours") THEN int(GroupText(match_gmt, "gmt_hours", v))
                  ELSE EMPTY_FIELD,
      minutes |-> IF Has("gmt_minutes") THEN int(GroupText(match_gmt, "gmt_minutes", v))
                  ELSE EMPTY_FIELD]

\* the timezone field for the captured text v
TimezoneField(v) == IF v = <<"Z">> THEN <<"U", "T", "C">> ELSE v

\* the am_pm field for the captured text v
AmPmField(v) == IF \E k \in 1..Len(v) : v[k] \in {"a", "A"} THEN STR_AM ELSE STR_PM

\* used the saved regex to match the saved text again
Rematch(pc) == re_match(_regexes[pc.regex], pc.match_text)

TimeValue(pc) ==
  LET match == Rematch(pc)
      v(name) == GroupText(match, name, pc.match_text)
      gmt == IF HasGroup(match, "gmt_delta") THEN GmtFields(v("gmt_delta"))
             ELSE [sign |-> EMPTY_FIELD, hours |-> EMPTY_FIELD, minutes |-> EMPTY_FIELD]
  IN [text  |-> pc.match_text,
      start |-> pc.start,
      end   |-> pc.end,
      hours   |-> IF HasGroup(match, "hours") THEN int(v("hours")) ELSE EMPTY_FIELD,
      minutes |-> IF HasGroup(match, "minutes") THEN int(v("minutes")) ELSE EMPTY_FIELD,
      seconds |-> IF HasGroup(match, "seconds") THEN int(v("seconds")) ELSE EMPTY_FIELD,
      fractional_seconds |->
        IF HasGroup(match, "frac") THEN Tail(v("frac")) ELSE EMPTY_FIELD,
      am_pm |-> IF HasGroup(match, "am_pm") THEN AmPmField(v("am_pm")) ELSE EMPTY_FIELD,
      timezone |->
        IF HasGroup(match, "timezone") THEN TimezoneField(v("timezone")) ELSE EMPTY_FIELD,
      gmt_delta_sign    |-> gmt.sign,
      gmt_delta_hours   |-> gmt.hours,
      gmt_delta_minutes |-> gmt.minutes]

\* a variant that leaves the results in the order overlap resolution emitted them
SortResults_omitted(rs) == rs

\* sort results to match order of occurrence in sentence
SortResults(rs) == sorted(rs, [k \in 1..Len(rs) |-> rs[k].start], FALSE)

(***************************************************************************)
(* The state of one call of run(sentence).                                 *)
(***************************************************************************)
VARIABLES
  pc,                 \* the statement of run() that executes next
  original_sentence,  \* the argument of run()
  sentence,           \* the cleaned sentence
  candidates,         \* potential matches: pooled by the scan, then sorted
  indices,            \* _remove_overlap: the working list
  pruned_candidates,  \* _remove_overlap: its results so far, then its return value
  results,            \* TimeValue results
  passes,             \* history: passes of the outer loop of _remove_overlap so far
  last_pass           \* history: what the latest pass saw and did

vars == <<pc, original_sentence, sentence, candidates, indices, pruned_candidates,
          results, passes, last_pass>>

\* the sentences of the model: at most MaxParts of these pieces, in any order
MaxParts == 3
Parts ==
  << <<"0", "9", "3", "0", "0", "0">>,
     <<"1", "0", ":", "3", "0">>,
     <<" ">>,
     <<"Z">>,
     <<"z">>,
     <<"(">>,
     <<"]">>,
     <<"+">> >>

RECURSIVE Concat(_)
Concat(ps) == IF Len(ps) = 0 THEN <<>> ELSE Parts[ps[1]] \o Concat(Tail(ps))
Sentences ==
  {Concat(ps) : ps \in UNION {[1..n -> 1..Len(Parts)] : n \in 0..MaxParts}}

\* the inputs of the cleaning model: at most MaxChars of these characters
MaxChars == 3
CleanChars == {"(", ")", "{", "}", "[", "]", " ", "1", ":"}
CleanInputs == UNION {[1..n -> CleanChars] : n \in 0..MaxChars}

\* the candidate lists of the overlap model: at most MaxCands spans within
\* [0, MaxPos], pooled as the scan pools them: in catalog order (the patterns that
\* matched being the first ones of the catalog) and, within one pattern, left to
\* right without overlap
MaxCands == 3
MaxPos == 4
Spans == {sp \in (0..MaxPos) \X (0..MaxPos) : sp[1] < sp[2]}
\* x may follow the pooled list c
PoolNext(c, x) ==
  IF Len(c) = 0 THEN x.regex = 1
  ELSE \/ x.regex = c[Len(c)].regex + 1
       \/ x.regex = c[Len(c)].regex /\ c[Len(c)].end <= x.start

NoPass == [first |-> 0, winner |-> 0, group |-> {}, replaced |-> FALSE, before |-> <<>>]

Init ==
  /\ pc = "clean"
  /\ original_sentence \in Sentences
  /\ sentence = <<>>
  /\ candidates = <<>>
  /\ indices = <<>>
  /\ pruned_candidates = <<>>
  /\ results = <<>>
  /\ passes = 0
  /\ last_pass = NoPass

InitClean ==
  /\ pc = "clean"
  /\ original_sentence \in CleanInputs
  /\ sentence = <<>>
  /\ candidates = <<>>
  /\ indices = <<>>
  /\ pruned_candidates = <<>>
  /\ results = <<>>
  /\ passes = 0
  /\ last_pass = NoPass

InitOverlap ==
  /\ pc = "pool"
  /\ original_sentence = <<>>
  /\ sentence = <<>>
  /\ candidates = <<>>
  /\ indices = <<>>
  /\ pruned_candidates = <<>>
  /\ results = <<>>
  /\ passes = 0
  /\ last_pass = NoPass

\* sentence = _clean_sentence(sentence)
Clean ==
  /\ pc = "clean"
  /\ sentence' = _clean_sentence(original_sentence)
  /\ pc' = "scan"
  /\ UNCHANGED <<original_sentence, candidates, indices, pruned_candidates, results,
                 passes, last_pass>>

\* for regex_index, regex in enumerate(_regexes): ... candidates.append(...)
Scan ==
  /\ pc = "scan"
  /\ candidates' = ScanFrom(1, sentence)
  /\ pc' = "sort"
  /\ UNCHANGED <<original_sentence, sentence, indices, pruned_candidates, results,
                 passes, last_pass>>

\* candidates.append(_Candidate(start, end, match_text, regex)) for any match the
\* scan may find next, and the end of the scan
Pool ==
  /\ pc = "pool"
  /\ Len(candidates) < MaxCands
  /\ \E sp \in Spans, r \in 1..(Len(candidates) + 1) :
       /\ PoolNext(candidates, _Candidate(sp[1], sp[2], <<>>, r))
       /\ candidates' = Append(candidates, _Candidate(sp[1], sp[2], <<>>, r))
  /\ UNCHANGED <<pc, original_sentence, sentence, indices, pruned_candidates, results,
                 passes, last_pass>>

PoolDone ==
  /\ pc = "pool"
  /\ pc' = "sort"
  /\ UNCHANGED <<original_sentence, sentence, candidates, indices, pruned_candidates,
                 results, passes, last_pass>>

\* candidates = sorted(...), and the call of _remove_overlap up to its outer loop
Sort ==
  /\ pc = "sort"
  /\ candidates' = SortCandidates(candidates)
  /\ indices' = [k \in 1..Len(candidates) |-> k]
  /\ pruned_candidates' = <<>>
  /\ pc' = IF Len(candidates) = 0 THEN "normalize" ELSE "resolve"
  /\ UNCHANGED <<original_sentence, sentence, results, passes, last_pass>>

\* one pass of the outer loop of _remove_overlap; it returns when indices is empty
Pass ==
  /\ pc = "resolve"
  /\ Len(indices) > 0
  /\ LET st == OnePass(candidates, indices)
         new_indices == RemoveOverlaps(indices, st.overlaps)
     IN /\ pruned_candidates' = Append(pruned_candidates, candidates[st.candidate_index])
        /\ indices' = new_indices
        /\ pc' = IF Len(new_indices) = 0 THEN "normalize" ELSE "resolve"
        /\ last_pass' = [first |-> indices[1],
                         winner |-> st.candidate_index,
                         group |-> {indices[st.overlaps[m]] : m \in 1..Len(st.overlaps)},
                         replaced |-> st.replaced,
                         before |-> indices]
  /\ passes' = passes + 1
  /\ UNCHANGED <<original_sentence, sentence, candidates, results>>

\* for pc in pruned_candidates: ... results.append(meas)
Normalize ==
  /\ pc = "normalize"
  /\ IF \A k \in 1..Len(pruned_candidates) : Rematch(pruned_candidates[k]).start >= 0
       THEN /\ results' = [k \in 1..Len(pruned_candidates) |->
                             TimeValue(pruned_candidates[k])]
            /\ pc' = "assemble"
       ELSE \* assert match
            /\ results' = results
            /\ pc' = "assert_failed"
  /\ UNCHANGED <<original_sentence, sentence, candidates, indices, pruned_candidates,
                 passes, last_pass>>

\* results = sorted(results, key=lambda x: x.start), and the return
Return ==
  /\ pc = "assemble"
  /\ results' = SortResults(results)
  /\ pc' = "done"
  /\ UNCHANGED <<original_sentence, sentence, candidates, indices, pruned_candidates,
                 passes, last_pass>>

Next == Clean \/ Scan \/ Sort \/ Pass \/ Normalize \/ Return

Spec == Init /\ [][Next]_vars

\* _remove_overlap alone, on the sorted form of any pooled candidate list
NextOverlap == Pool \/ PoolDone \/ Sort \/ Pass

SpecOverlap == InitOverlap /\ [][NextOverlap]_vars

\* _clean_sentence alone, on any short text of brackets and other characters
SpecClean == InitClean /\ [][Clean]_vars

(***************************************************************************)
(* The properties.  They speak of spans in their own words: two candidates *)
(* overlap when their half-open spans share an offset.                     *)
(***************************************************************************)
SpanLen(c) == c.end - c.start
Overlapping(a, b) == ~(a.end <= b.start \/ b.end <= a.start)
\* pooled order: catalog order, then left to right within one pattern
PoolBefore(a, b) == a.regex < b.regex \/ (a.regex = b.regex /\ a.start < b.start)
\* _remove_overlap has returned
Resolved == pc \in {"normalize", "assemble", "done", "assert_failed"}
\* candidate k of the sorted list is in the list _remove_overlap returned
Returned(k) == \E m \in 1..Len(pruned_candidates) : pruned_candidates[m] = candidates[k]
CandidateIndices == 1..Len(candidates)

\* C1: the records that run() returns are pairwise non-overlapping: of any two
\* distinct records one ends at or before the start of the other.
C1_RecordsDoNotOverlap ==
  pc = "done" =>
    \A k, m \in 1..Len(results) :
      k # m => \/ results[k].end <= results[m].start
               \/ results[m].end <= results[k].start

\* run() returned two records or more after resolving candidates that overlapped
C1_Witness ==
  /\ pc = "done"
  /\ Len(results) >= 2
  /\ \E a, b \in CandidateIndices : a # b /\ Overlapping(candidates[a], candidates[b])

\* C2, as claimed: of two candidates with the same start and different lengths
\* the shorter is never in the resolved set while the longer is absent from it,
\* whatever other candidates the set holds.
C2_LongerAlwaysWins ==
  Resolved =>
    \A a, b \in CandidateIndices :
      (/\ candidates[a].start = candidates[b].start
       /\ SpanLen(candidates[a]) < SpanLen(candidates[b]))
      => ~(Returned(a) /\ ~Returned(b))

\* C2, amended: the shorter is in the resolved set without the longer only when
\* a returned candidate at least as long as the longer one overlaps the longer
\* one and not the shorter one.
C2_LongerWinsUnlessDisplaced ==
  Resolved =>
    \A a, b \in CandidateIndices :
      (/\ candidates[a].start = candidates[b].start
       /\ SpanLen(candidates[a]) < SpanLen(candidates[b])
       /\ Returned(a) /\ ~Returned(b))
      => \E c \in CandidateIndices :
           /\ Returned(c)
           /\ SpanLen(candidates[c]) >= SpanLen(candidates[b])
           /\ Overlapping(candidates[c], candidates[b])
           /\ ~Overlapping(candidates[c], candidates[a])

\* the shorter of two candidates with the same start was returned, the longer not
C2_Witness ==
  /\ Resolved
  /\ \E a, b \in CandidateIndices :
       /\ candidates[a].start = candidates[b].start
       /\ SpanLen(candidates[a]) < SpanLen(candidates[b])
       /\ Returned(a) /\ ~Returned(b)

\* C3: every candidate that _remove_overlap does not return overlaps a returned
\* candidate that is at least as long as it.
C3_DiscardedOverlapsLongerWinner ==
  Resolved =>
    \A k \in CandidateIndices :
      ~Returned(k) =>
        \E m \in CandidateIndices :
          /\ Returned(m)
          /\ Overlapping(candidates[m], candidates[k])
          /\ SpanLen(candidates[m]) >= SpanLen(candidates[k])

\* _remove_overlap returned several candidates and discarded another
C3_Witness ==
  /\ Resolved
  /\ Len(pruned_candidates) >= 2
  /\ \E k \in CandidateIndices : ~Returned(k)

\* C4: the records that run() returns are in ascending order of start.
C4_ResultsSortedByStart ==
  pc = "done" =>
    \A k \in 1..(Len(results) - 1) : results[k].start <= results[k+1].start

\* run() returned records that overlap resolution had emitted in another order
C4_Witness ==
  /\ pc = "done"
  /\ Len(results) >= 2
  /\ \E k \in 1..(Len(pruned_candidates) - 1) :
       pruned_candidates[k].start > pruned_candidates[k+1].start

\* C5: the text of every returned record is the cleaned sentence from the
\* record's start up to its end, and 0 <= start < end <= the length of the input.
C5_OffsetsPreserved ==
  pc = "done" =>
    \A k \in 1..Len(results) :
      /\ results[k].text = SubSeq(sentence, results[k].start + 1, results[k].end)
      /\ 0 <= results[k].start
      /\ results[k].start < results[k].end
      /\ results[k].end <= Len(original_sentence)

\* run() returned a record whose text covers the place of a bracket of the input
C5_Witness ==
  /\ pc = "done"
  /\ \E k \in 1..Len(results) :
       \E i \in (results[k].start + 1)..results[k].end :
         original_sentence[i] \in {"(", ")", "{", "}", "[", "]"}

\* C6: _clean_sentence keeps the length, puts a space where a bracket was and
\* leaves every other character as it is.
C6_BracketsBecomeSpaces ==
  pc = "scan" =>
    /\ Len(sentence) = Len(original_sentence)
    /\ \A i \in 1..Len(original_sentence) :
         IF original_sentence[i] \in {"(", ")", "{", "}", "[", "]"}
           THEN sentence[i] = " "
           ELSE sentence[i] = original_sentence[i]

\* a sentence with a bracket and another character was cleaned
C6_Witness ==
  /\ pc = "scan"
  /\ \E i, j \in 1..Len(original_sentence) :
       /\ original_sentence[i] \in {"(", ")", "{", "}", "[", "]"}
       /\ original_sentence[j] \notin {"(", ")", "{", "}", "[", "]", " "}

\* C7: cleaning a cleaned sentence changes nothing.
C7_CleanIdempotent ==
  pc = "scan" => _clean_sentence(sentence) = sentence

\* a sentence with several brackets was cleaned
C7_Witness ==
  /\ pc = "scan"
  /\ Cardinality({i \in 1..Len(original_sentence) :
                    original_sentence[i] # sentence[i]}) >= 2

\* C8, as claimed: when the timezone group of a resolved match captured the
\* zone marker, Z in either case, the record's timezone is UTC; any other
\* captured timezone is stored as captured.
C8_ZoneMarkerIsUTC ==
  pc = "assemble" =>
    \A k \in 1..Len(results) :
      LET match == Rematch(pruned_candidates[k])
      IN HasGroup(match, "timezone") =>
           LET v == GroupText(match, "timezone", pruned_candidates[k].match_text)
           IN IF v \in {<<"Z">>, <<"z">>}
                THEN results[k].timezone = <<"U", "T", "C">>
                ELSE results[k].timezone = v

\* C9: every pass of the outer loop of _remove_overlap emits exactly one winner
\* and removes its group, which holds the first remaining candidate, so the
\* working list shrinks; while the working list is not empty the next pass can
\* run, and the loop ends with the working list empty after at most as many
\* passes as there are candidates.
C9_ResolutionTerminates ==
  /\ [][pc = "resolve" =>
          /\ Len(pruned_candidates') = Len(pruned_candidates) + 1
          /\ last_pass'.first = indices[1]
          /\ last_pass'.first \in last_pass'.group
          /\ Len(indices') = Len(indices) - Cardinality(last_pass'.group)
          /\ Len(indices') < Len(indices)
          /\ passes' = passes + 1
          /\ pc' = IF Len(indices') = 0 THEN "normalize" ELSE "resolve"]_vars
  /\ [](pc = "resolve" => ENABLED Pass /\ passes < Len(candidates))
  /\ [](pc = "normalize" => Len(indices) = 0 /\ passes <= Len(candidates))

\* the loop ended after several passes, one of which removed several candidates
C9_Witness ==
  /\ pc = "normalize"
  /\ passes >= 2
  /\ passes < Len(candidates)

\* the sorted list is in descending order of length and candidates of equal
\* length are in their pooled order
StablySorted ==
  \A p, q \in CandidateIndices :
    p < q => /\ SpanLen(candidates[p]) >= SpanLen(candidates[q])
             /\ SpanLen(candidates[p]) = SpanLen(candidates[q])
                  => PoolBefore(candidates[p], candidates[q])

\* C10, as claimed: the sort keeps candidates of equal length in pooled order, and
\* of two overlapping candidates of equal length that are both in the working
\* list at the start of a pass the earlier in pooled order is the one that pass
\* emits, and the other is discarded.
C10_EarlierOfEqualsIsEmitted ==
  /\ pc \notin {"clean", "scan", "pool", "sort"} => StablySorted
  /\ passes > 0 =>
       \A x, y \in CandidateIndices :
         (/\ \E p, q \in 1..Len(last_pass.before) :
                last_pass.before[p] = x /\ last_pass.before[q] = y
          /\ Overlapping(candidates[x], candidates[y])
          /\ SpanLen(candidates[x]) = SpanLen(candidates[y])
          /\ PoolBefore(candidates[x], candidates[y]))
         => /\ last_pass.winner = x
            /\ y \in last_pass.group

\* C10, amended: the sort keeps candidates of equal length in pooled order; of two
\* overlapping candidates of equal length that are both in the working list at
\* the start of a pass, the later in pooled order is never the one that pass
\* emits, and when the pass emits the earlier it discards the later; of two
\* candidates with the identical span the one of the later pattern is never
\* returned.
C10_StableTieBreak ==
  /\ pc \notin {"clean", "scan", "pool", "sort"} => StablySorted
  /\ passes > 0 =>
       \A x, y \in CandidateIndices :
         (/\ \E p, q \in 1..Len(last_pass.before) :
                last_pass.before[p] = x /\ last_pass.before[q] = y
          /\ Overlapping(candidates[x], candidates[y])
          /\ SpanLen(candidates[x]) = SpanLen(candidates[y])
          /\ PoolBefore(candidates[x], candidates[y]))
         => /\ last_pass.winner # y
            /\ last_pass.winner = x => y \in last_pass.group
  /\ Resolved =>
       \A x, y \in CandidateIndices :
         (/\ candidates[x].start = candidates[y].start
          /\ candidates[x].end = candidates[y].end
          /\ candidates[x].regex < candidates[y].regex)
         => ~Returned(y)

\* a pass emitted the earlier pooled of two overlapping candidates of equal length,
\* the one that starts later in the text, and discarded the other
C10_Witness ==
  /\ passes > 0
  /\ \E x, y \in CandidateIndices :
       /\ \E p, q \in 1..Len(last_pass.before) :
            last_pass.before[p] = x /\ last_pass.before[q] = y
       /\ Overlapping(candidates[x], candidates[y])
       /\ SpanLen(candidates[x]) = SpanLen(candidates[y])
       /\ PoolBefore(candidates[x], candidates[y])
       /\ candidates[x].start > candidates[y].start
       /\ last_pass.winner = x
       /\ y \in last_pass.group

\* the candidates that were in the working list when the latest pass began
RemainingBefore == {last_pass.before[p] : p \in 1..Len(last_pass.before)}

\* the candidates that are in the working list now
RemainingNow == {indices[p] : p \in 1..Len(indices)}

\* the members of R that a chain of pairwise overlapping members of R joins to S
RECURSIVE ChainFrom(_, _)
ChainFrom(S, R) ==
  LET T == S \cup {y \in R : \E x \in S : Overlapping(candidates[x], candidates[y])}
  IN IF T = S THEN S ELSE ChainFrom(T, R)

\* C11, as claimed: the group that a pass removes is the whole chain of pairwise
\* overlapping remaining candidates that starts at the pass's first candidate,
\* the winner is the longest member of that chain, and no member of the chain
\* stays in the working list for a later pass.
C11_GroupIsTransitiveCluster ==
  passes > 0 =>
    LET chain == ChainFrom({last_pass.first}, RemainingBefore)
    IN /\ last_pass.group = chain
       /\ last_pass.winner \in chain
       /\ \A y \in chain :
            SpanLen(candidates[last_pass.winner]) >= SpanLen(candidates[y])
       /\ chain \cap RemainingNow = {}

\* C11, amended: the group that a pass removes holds exactly the remaining
\* candidates whose spans overlap the winner's span, the winner is the longest
\* member of the group, the whole group leaves the working list, and a member of
\* the chain that stays for a later pass does not overlap the winner.
C11_GroupIsDirectOverlap ==
  passes > 0 =>
    LET chain == ChainFrom({last_pass.first}, RemainingBefore)
        w == last_pass.winner
    IN /\ last_pass.group =
            {y \in RemainingBefore : Overlapping(candidates[w], candidates[y])}
       /\ w \in last_pass.group
       /\ last_pass.group \subseteq chain
       /\ \A y \in last_pass.group :
            SpanLen(candidates[w]) >= SpanLen(candidates[y])
       /\ last_pass.group \cap RemainingNow = {}
       /\ \A y \in chain \cap RemainingNow :
            ~Overlapping(candidates[w], candidates[y])

\* a pass removed a group of several candidates and left in the working list a
\* candidate that a chain of overlaps joins to the pass's first candidate
C11_Witness ==
  /\ passes > 0
  /\ Cardinality(last_pass.group) >= 2
  /\ (ChainFrom({last_pass.first}, RemainingBefore) \cap RemainingNow) # {}

\* C12: on the list sorted by length descending that run() passes, no pass takes
\* the branch len_j > len_i, so the comparison span stays that of the first
\* remaining candidate: every pass emits the first remaining candidate and removes
\* exactly it and the remaining candidates whose spans overlap it.
C12_ReplacementBranchNeverTaken ==
  passes > 0 =>
    LET first == last_pass.before[1]
    IN /\ ~last_pass.replaced
       /\ last_pass.first = first
       /\ last_pass.winner = first
       /\ pruned_candidates[Len(pruned_candidates)] = candidates[first]
       /\ last_pass.group =
            {first} \cup {y \in RemainingBefore :
                            Overlapping(candidates[first], candidates[y])}
       /\ RemainingNow = RemainingBefore \ last_pass.group
       /\ Len(indices) = Len(last_pass.before) - Cardinality(last_pass.group)
       /\ \A p, q \in 1..Len(indices) : p < q => indices[p] < indices[q]

\* a pass compared its first candidate with an overlapping candidate of the same
\* length and with a shorter one, emitted the first and removed all three
C12_Witness ==
  /\ passes > 0
  /\ \E y, z \in last_pass.group :
       /\ y # last_pass.first
       /\ SpanLen(candidates[y]) = SpanLen(candidates[last_pass.first])
       /\ SpanLen(candidates[z]) < SpanLen(candidates[last_pass.first])

=============================================================================
